---- MODULE Spec2Model ----
(***************************************************************************)
(* CouchbaseContainer (modules/couchbase/testcontainers/couchbase):        *)
(* the readiness-and-bootstrap sequence of start(), and the public         *)
(* operations set_admin_credentials(), client() and list_buckets(), run by *)
(* one thread of control against the container runtime and the service's   *)
(* management HTTP API.                                                    *)
(***************************************************************************)
EXTENDS Integers, Sequences, FiniteSets

(* ------------------------------ bounds --------------------------------- *)

\* Readiness GETs kept in the request log of one start(); the polling loop
\* itself is unbounded, later failed polls are elided from the log.
MaxPolls == 2

\* Public operations invoked on one container instance.
MaxOps == 4

(* --------------------------- input domains ----------------------------- *)

\* The provisioning configs: the fallback values of the constructor, and a
\* config given explicitly with five different values.
Configs ==
    {[username |-> "Administrator", password |-> "password",
      bucket |-> "default", scope |-> "default", collection |-> "default"],
     [username |-> "administrator", password |-> "secret",
      bucket |-> "travel", scope |-> "inventory", collection |-> "airline"]}

Hosts == {"localhost", "172.17.0.1"}

\* HTTP status codes a response may carry (both edges of the 2xx range).
Statuses == {199, 200, 299, 300, 500}

\* Response bodies of non-2xx responses.
Bodies == {"unauthorized", "already exists"}

(* ----------------------------- values ---------------------------------- *)

NoAuth == <<>>

NoData == [name |-> "", username |-> "", password |-> "", port |-> "",
           bucketType |-> "", ramQuotaMB |-> 0, maxTTL |-> 0, history |-> ""]

NoErr == [type |-> "", detail |-> ""]

NoCluster == [url |-> <<>>, username |-> "", password |-> "",
              kv_timeout |-> 0, enable_tcp_keep_alive |-> FALSE,
              tls_verify |-> ""]

NoResult == [kind |-> "none", buckets |-> {}, cluster |-> NoCluster]

\* A response of the management API, or the exception the request raised.
Response(status, text) == [status |-> status, text |-> text, exc |-> ""]
Raised(exc) == [status |-> 0, text |-> "", exc |-> exc]

\* What the service may answer: a 2xx response or a non-2xx response with a body.
Responses ==
    {Response(s, "") : s \in {t \in Statuses : 200 <= t /\ t < 300}}
    \cup {Response(s, b) : s \in {t \in Statuses : ~(200 <= t /\ t < 300)},
                           b \in Bodies}

\* What the service may answer to a readiness poll; only the status is read.
PollResponses == {Response(s, "") : s \in Statuses}

\* The service as a fresh container starts it: no credentials, no resources.
FreshService == [creds |-> <<>>, buckets |-> {}, scopes |-> {}, collections |-> {}]

VARIABLES
    args,         \* the arguments the constructor was called with
    environ,      \* os.environ when the constructor ran
    ports,        \* self.ports: container port -> host port
    markerSeen,   \* the log of the container has shown the marker
    cfg,          \* self.username, password, bucket, scope, collection
    host,         \* get_container_host_ip()
    env,          \* the container's environment (with_env)
    container,    \* "none" | "running": the container of this instance
    svc,          \* the service inside the container
    op,           \* the public operation in progress, "none" when idle
    pc,           \* position inside start()
    calls,        \* the HTTP requests issued by the operation in progress / last run
    err,          \* the exception the last operation raised
    result,       \* the value the last operation returned
    startRes,     \* outcome of the latest start(): "none" | "returned" | "raised"
    postFailed,   \* a provisioning POST of start() has failed on this instance
    nOps          \* public operations invoked so far

vars == <<args, environ, ports, markerSeen, cfg, host, env, container, svc,
          op, pc, calls, err, result, startRes, postFailed, nOps>>

(* ------------------------- pure parts of the code ---------------------- *)

\* Is2xx with the upper edge of the range included.
Is2xxInclusive(status) == 200 <= status /\ status <= 300

\* 200 <= response.status_code < 300
Is2xx(status) == 200 <= status /\ status < 300

\* http://{host}:{exposed port of 8091}/<path>
Url(path) == <<"http", host, "8091">> \o path

SettingsWebPath == <<"settings", "web">>
BucketsPath == <<"pools", "default", "buckets">>
ScopesPath == BucketsPath \o <<cfg.bucket, "scopes">>
CollectionsPath == ScopesPath \o <<cfg.scope, "collections">>

\* BasicAuth with the two arguments exchanged.
BasicAuthSwapped == <<cfg.password, cfg.username>>

\* HTTPBasicAuth(self.username, self.password)
BasicAuth == <<cfg.username, cfg.password>>

Request(method, path, auth, data, resp) ==
    [method |-> method, url |-> Url(path), auth |-> auth, data |-> data,
     resp |-> resp]

\* get_connection_url with the unencrypted scheme.
get_connection_urlPlain == <<"couchbase", host>>

\* couchbases://{host}
get_connection_url == <<"couchbases", host>>

\* auth = PasswordAuthenticator(...); ClusterOptions(...); Cluster(url, options)
Cluster ==
    [url |-> get_connection_url, username |-> cfg.username,
     password |-> cfg.password, kv_timeout |-> 10,
     enable_tcp_keep_alive |-> TRUE, tls_verify |-> "NONE"]

\* Succeeded without the status check: any response counts.
SucceededAnyResponse(resp) == resp.exc = ""

\* The request got a response and its status is 2xx.
Succeeded(resp) == resp.exc = "" /\ Is2xx(resp.status)

\* ErrorOf with the status code as the detail instead of the body.
ErrorOfStatus(resp) ==
    IF resp.exc # "" THEN [type |-> resp.exc, detail |-> ""]
    ELSE [type |-> "RuntimeError", detail |-> "request failed"]

\* raise RuntimeError(response.text), or the exception the request raised.
ErrorOf(resp) ==
    IF resp.exc # "" THEN [type |-> resp.exc, detail |-> ""]
    ELSE [type |-> "RuntimeError", detail |-> resp.text]

\* The statements of start(), in order.
StartSequence ==
    <<"_configure", "super_start", "_connect", "set_admin_credentials",
      "_create_bucket", "_create_scope", "_create_collection", "return">>

\* After with the scope created before the bucket.
AfterScopeFirst(step) ==
    CASE step = "set_admin_credentials" -> "_create_scope"
      [] step = "_create_scope" -> "_create_bucket"
      [] step = "_create_bucket" -> "_create_collection"
      [] OTHER ->
           LET i == CHOOSE j \in 1..Len(StartSequence) : StartSequence[j] = step
           IN StartSequence[i + 1]

\* After with the bucket created before the credentials are set.
AfterBucketFirst(step) ==
    CASE step = "_connect" -> "_create_bucket"
      [] step = "_create_bucket" -> "set_admin_credentials"
      [] step = "set_admin_credentials" -> "_create_scope"
      [] OTHER ->
           LET i == CHOOSE j \in 1..Len(StartSequence) : StartSequence[j] = step
           IN StartSequence[i + 1]

\* The statement of start() that follows `step`.
After(step) ==
    LET i == CHOOSE j \in 1..Len(StartSequence) : StartSequence[j] = step
    IN StartSequence[i + 1]

(* --------------------- request bodies of the four POSTs ---------------- *)

CredentialsData ==
    [NoData EXCEPT !.username = cfg.username, !.password = cfg.password,
                   !.port = "SAME"]

\* BucketData that names the bucket after the scope.
BucketDataScopeName ==
    [NoData EXCEPT !.name = cfg.scope, !.bucketType = "couchbase",
                   !.ramQuotaMB = 256]

BucketData ==
    [NoData EXCEPT !.name = cfg.bucket, !.bucketType = "couchbase",
                   !.ramQuotaMB = 256]

\* ScopeData that names the scope after the collection.
ScopeDataCollectionName == [NoData EXCEPT !.name = cfg.collection]

ScopeData == [NoData EXCEPT !.name = cfg.scope]

CollectionData ==
    [NoData EXCEPT !.name = cfg.collection, !.maxTTL = 3600,
                   !.history = "false"]

(* ------------------- the management API's side of a call --------------- *)

\* POST /settings/web: 2xx => the credentials of the body are set.
ServiceSetCredentials(s, req) ==
    IF Succeeded(req.resp)
    THEN [s EXCEPT !.creds = <<req.data.username, req.data.password>>]
    ELSE s

\* POST /pools/default/buckets: 2xx => the bucket of the body is created.
ServiceCreateBucket(s, req) ==
    IF Succeeded(req.resp)
    THEN [s EXCEPT !.buckets = @ \cup {req.data.name}]
    ELSE s

\* POST /pools/default/buckets/{bucket}/scopes: 2xx => the scope is created.
ServiceCreateScope(s, req) ==
    IF Succeeded(req.resp)
    THEN [s EXCEPT !.scopes = @ \cup {<<req.url[7], req.data.name>>}]
    ELSE s

\* POST .../scopes/{scope}/collections: 2xx => the collection is created.
ServiceCreateCollection(s, req) ==
    IF Succeeded(req.resp)
    THEN [s EXCEPT !.collections =
                       @ \cup {<<req.url[7], req.url[9], req.data.name>>}]
    ELSE s

(* ---------------------------- __init__ ------------------------------- *)

Fields == {"username", "password", "bucket", "scope", "collection"}

\* The environment variable read for a field.
EnvVarOf ==
    [username |-> "COUCHBASE_USERNAME", password |-> "COUCHBASE_PASSWORD",
     bucket |-> "COUCHBASE_BUCKET", scope |-> "COUCHBASE_SCOPE",
     collection |-> "COUCHBASE_COLLECTION"]

OsEnvVars == {EnvVarOf[f] : f \in Fields}

\* The default of os.environ.get for a field.
Fallback ==
    [username |-> "Administrator", password |-> "password",
     bucket |-> "default", scope |-> "default", collection |-> "default"]

\* An optional string: <<>> is None (for the environment: not set), <<s>> is
\* the string s.
None == <<>>

\* Python's truth value of an optional string: None and "" are false.
Truthy(arg) == arg # None /\ arg[1] # ""

\* Resolve with the environment consulted before the argument.
ResolveEnvFirst(arg, osenv, var, fallback) ==
    IF osenv[var] # None THEN osenv[var][1]
    ELSE IF Truthy(arg) THEN arg[1]
    ELSE fallback

\* arg or os.environ.get(var, fallback)
Resolve(arg, osenv, var, fallback) ==
    IF Truthy(arg) THEN arg[1]
    ELSE IF osenv[var] # None THEN osenv[var][1]
    ELSE fallback

\* self.username .. self.collection as __init__ sets them.
Config(a, osenv) ==
    [f \in Fields |-> Resolve(a[f], osenv, EnvVarOf[f], Fallback[f])]

DefaultPorts ==
    <<8091, 8092, 8093, 8094, 8095, 8096, 8097, 9123, 11207, 11210, 11280,
      18091, 18092, 18093, 18094, 18095, 18096, 18097>>

\* The ports argument: None, or a list of ports.
NoPorts == [isNone |-> TRUE, list |-> <<>>]
PortList(l) == [isNone |-> FALSE, list |-> l]

\* with_exposed_ports(port); with_bind_ports(port, port) for every port of
\* the argument, or of the default list when it is None or empty.
BoundPorts(p) ==
    LET l == IF p.isNone \/ Len(p.list) = 0 THEN DefaultPorts ELSE p.list
    IN {<<l[i], l[i]>> : i \in DOMAIN l}

\* The config of an instance that is not constructed yet.
NoConfig == [f \in Fields |-> ""]

\* Constructor inputs of the instances whose operations are explored: no
\* argument and an empty environment; every name given, the bucket by the
\* environment.
StartInputs ==
    {[args |-> [username |-> None, password |-> None, bucket |-> None,
                scope |-> None, collection |-> None, ports |-> NoPorts],
      environ |-> [v \in OsEnvVars |-> None]],
     [args |-> [username |-> <<"administrator">>, password |-> <<"secret">>,
                bucket |-> None, scope |-> <<"inventory">>,
                collection |-> <<"airline">>, ports |-> PortList(<<8091>>)],
      environ |-> [v \in OsEnvVars |->
                      IF v = "COUCHBASE_BUCKET" THEN <<"travel">> ELSE None]]}

\* Constructor inputs explored for the constructor alone.
ArgValues == {None, <<"">>, <<"given">>}
EnvValues == {None, <<"fromenv">>}
PortArgs == {NoPorts, PortList(<<>>), PortList(<<8091, 11210>>)}

(* ------------------------------ state ---------------------------------- *)

EnvKeys == {"COUCHBASE_USERNAME", "COUCHBASE_PASSWORD", "COUCHBASE_BUCKET"}

\* The instance after its construction.
Init ==
    /\ \E in \in StartInputs :
          /\ args = in.args
          /\ environ = in.environ
          /\ cfg = Config(in.args, in.environ)
          /\ ports = BoundPorts(in.args.ports)
    /\ cfg \in Configs
    /\ markerSeen = FALSE
    /\ host \in Hosts
    /\ env = [k \in EnvKeys |-> ""]
    /\ container = "none"
    /\ svc = FreshService
    /\ op = "none"
    /\ pc = "idle"
    /\ calls = <<>>
    /\ err = NoErr
    /\ result = NoResult
    /\ startRes = "none"
    /\ postFailed = FALSE
    /\ nOps = 0

\* The operation in progress ends by raising e.
Raise(e) ==
    /\ op' = "none"
    /\ pc' = "idle"
    /\ err' = e
    /\ result' = NoResult
    /\ startRes' = IF op = "start" THEN "raised" ELSE startRes

\* The operation in progress ends by returning r.
Return(r) ==
    /\ op' = "none"
    /\ pc' = "idle"
    /\ err' = NoErr
    /\ result' = r
    /\ startRes' = IF op = "start" THEN "returned" ELSE startRes

\* One step of start() done without an exception: on to the next statement.
Proceed ==
    /\ pc' = After(pc)
    /\ UNCHANGED <<op, err, result, startRes>>

\* The request log of the polling loop: the first MaxPolls polls, and the
\* poll that ends the loop.
LogPoll(req, ends) ==
    IF Len(calls) < MaxPolls \/ ends THEN Append(calls, req) ELSE calls

\* ProvisioningStep that goes on to the next statement whatever the response.
ProvisioningStepNoRaise(req, serviceAfter) ==
    /\ calls' = Append(calls, req)
    /\ svc' = serviceAfter
    /\ postFailed' = (postFailed \/ ~Succeeded(req.resp))
    /\ IF After(pc) = "return"
       THEN Return([NoResult EXCEPT !.kind = "self"])
       ELSE Proceed
    /\ UNCHANGED <<args, environ, ports, markerSeen, cfg,
                   host, env, container, nOps>>

\* ProvisioningStep that issues the POST again when it failed.
ProvisioningStepRetry(req, serviceAfter) ==
    /\ calls' = Append(calls, req)
    /\ svc' = serviceAfter
    /\ postFailed' = (postFailed \/ ~Succeeded(req.resp))
    /\ IF Succeeded(req.resp)
       THEN IF After(pc) = "return"
            THEN Return([NoResult EXCEPT !.kind = "self"])
            ELSE Proceed
       ELSE IF Len(calls) < MaxPolls + 4
            THEN UNCHANGED <<op, pc, err, result, startRes>>
            ELSE Raise(ErrorOf(req.resp))
    /\ UNCHANGED <<args, environ, ports, markerSeen, cfg,
                   host, env, container, nOps>>

\* ProvisioningStep that undoes the earlier steps when the POST failed.
ProvisioningStepRollback(req, serviceAfter) ==
    /\ calls' = Append(calls, req)
    /\ svc' = IF Succeeded(req.resp) THEN serviceAfter ELSE FreshService
    /\ postFailed' = (postFailed \/ ~Succeeded(req.resp))
    /\ IF Succeeded(req.resp)
       THEN IF After(pc) = "return"
            THEN Return([NoResult EXCEPT !.kind = "self"])
            ELSE Proceed
       ELSE Raise(ErrorOf(req.resp))
    /\ UNCHANGED <<args, environ, ports, markerSeen, cfg,
                   host, env, container, nOps>>

\* A provisioning POST of start() and what follows it: the next statement on
\* 2xx, RuntimeError(response.text) otherwise.
ProvisioningStep(req, serviceAfter) ==
    /\ calls' = Append(calls, req)
    /\ svc' = serviceAfter
    /\ postFailed' = (postFailed \/ ~Succeeded(req.resp))
    /\ IF Succeeded(req.resp)
       THEN IF After(pc) = "return"
            THEN Return([NoResult EXCEPT !.kind = "self"])
            ELSE Proceed
       ELSE Raise(ErrorOf(req.resp))
    /\ UNCHANGED <<args, environ, ports, markerSeen, cfg,
                   host, env, container, nOps>>

(* ------------------------------ start() -------------------------------- *)

\* start() is called; self._configure()
start_configure ==
    /\ op = "none"
    /\ nOps < MaxOps
    /\ nOps' = nOps + 1
    /\ op' = "start"
    /\ pc' = After("_configure")
    /\ env' = [env EXCEPT !["COUCHBASE_USERNAME"] = cfg.username,
                          !["COUCHBASE_PASSWORD"] = cfg.password,
                          !["COUCHBASE_BUCKET"] = cfg.bucket]
    /\ calls' = <<>>
    /\ err' = NoErr
    /\ result' = NoResult
    /\ startRes' = "none"
    /\ UNCHANGED <<args, environ, ports, markerSeen, cfg,
                   host, container, svc, postFailed>>

\* super().start(): the runtime starts a container with every port bound to
\* the same host port, or fails; the host ports of a container of this
\* instance that is still running cannot be bound again.
super_start ==
    /\ op = "start"
    /\ pc = "super_start"
    /\ \E started \in BOOLEAN :
          IF started /\ container = "none"
          THEN /\ container' = "running"
               /\ svc' = FreshService
               /\ markerSeen' = FALSE
               /\ Proceed
          ELSE /\ Raise([type |-> "DockerException", detail |-> ""])
               /\ UNCHANGED <<container, svc, markerSeen>>
    /\ UNCHANGED <<args, environ, ports, cfg,
                   host, env, calls, postFailed, nOps>>

\* LogWaitRaises with the outcome of the log wait ignored.
LogWaitIgnored(seen) == FALSE

\* wait_for_logs is called before the loop and outside its try block: when
\* the marker was not seen, its TimeoutError leaves _connect.
LogWaitRaises(seen) == ~seen

\* _connect: wait_for_logs(self, "and logs available in")
wait_for_logs ==
    /\ op = "start"
    /\ pc = "_connect"
    /\ \E seen \in BOOLEAN :
          /\ markerSeen' = seen
          /\ IF LogWaitRaises(seen)
             THEN Raise([type |-> "TimeoutError", detail |-> ""])
             ELSE /\ pc' = "sleep"
                  /\ UNCHANGED <<op, err, result, startRes>>
    /\ UNCHANGED <<args, environ, ports, cfg,
                   host, env, container, svc, calls, postFailed, nOps>>

\* _connect: while True: sleep(1)
sleep ==
    /\ op = "start"
    /\ pc = "sleep"
    /\ pc' = "get"
    /\ UNCHANGED <<args, environ, ports, markerSeen, cfg,
                   host, env, container, svc, op, calls, err, result,
                   startRes, postFailed, nOps>>

\* Caught with no except clause: every exception leaves the loop.
CaughtNothing(exc) == FALSE

\* Caught with a bare except clause: every exception is suppressed.
CaughtEverything(exc) == TRUE

\* except requests.exceptions.ConnectionError: pass
Caught(exc) == exc = "ConnectionError"

\* _connect: requests.get(.../settings/web); break on 2xx, pass on non-2xx
\* and on ConnectionError; any other exception leaves _connect.
poll ==
    /\ op = "start"
    /\ pc = "get"
    /\ \E resp \in PollResponses
                   \cup {Raised("ConnectionError"), Raised("ReadTimeout")} :
          LET req == Request("GET", SettingsWebPath, NoAuth, NoData, resp)
              caught == Caught(resp.exc)
              ends == Succeeded(resp) \/ (resp.exc # "" /\ ~caught)
          IN /\ calls' = LogPoll(req, ends)
             /\ IF resp.exc # "" /\ ~caught
                THEN Raise(ErrorOf(resp))
                ELSE /\ pc' = IF Succeeded(resp) THEN After("_connect")
                              ELSE "sleep"
                     /\ UNCHANGED <<op, err, result, startRes>>
    /\ UNCHANGED <<args, environ, ports, markerSeen, cfg,
                   host, env, container, svc, postFailed, nOps>>

\* start(): self.set_admin_credentials()
set_admin_credentials ==
    /\ op = "start"
    /\ pc = "set_admin_credentials"
    /\ \E resp \in Responses \cup {Raised("ConnectionError")} :
          LET req == Request("POST", SettingsWebPath, NoAuth,
                             CredentialsData, resp)
          IN ProvisioningStep(req, ServiceSetCredentials(svc, req))

\* start(): self._create_bucket()
_create_bucket ==
    /\ op = "start"
    /\ pc = "_create_bucket"
    /\ \E resp \in Responses \cup {Raised("ConnectionError")} :
          LET req == Request("POST", BucketsPath, BasicAuth, BucketData, resp)
          IN ProvisioningStep(req, ServiceCreateBucket(svc, req))

\* start(): self._create_scope()
_create_scope ==
    /\ op = "start"
    /\ pc = "_create_scope"
    /\ \E resp \in Responses \cup {Raised("ConnectionError")} :
          LET req == Request("POST", ScopesPath, BasicAuth, ScopeData, resp)
          IN ProvisioningStep(req, ServiceCreateScope(svc, req))

\* start(): self._create_collection(); return self
_create_collection ==
    /\ op = "start"
    /\ pc = "_create_collection"
    /\ \E resp \in Responses \cup {Raised("ConnectionError")} :
          LET req == Request("POST", CollectionsPath, BasicAuth,
                             CollectionData, resp)
          IN ProvisioningStep(req, ServiceCreateCollection(svc, req))

(* ------------------------ the other public methods --------------------- *)

\* get_exposed_port(8091) of an instance without a container raises before
\* any request is sent.
NoContainer ==
    /\ calls' = <<>>
    /\ Raise([type |-> "ContainerStartException", detail |-> ""])
    /\ UNCHANGED svc

\* set_admin_credentials() called by the user of the container.
call_set_admin_credentials ==
    /\ op = "none"
    /\ nOps < MaxOps
    /\ nOps' = nOps + 1
    /\ IF container = "none"
       THEN NoContainer
       ELSE \E resp \in Responses \cup {Raised("ConnectionError")} :
               LET req == Request("POST", SettingsWebPath, NoAuth,
                                  CredentialsData, resp)
               IN /\ calls' = <<req>>
                  /\ svc' = ServiceSetCredentials(svc, req)
                  /\ IF Succeeded(resp)
                     THEN Return([NoResult EXCEPT !.kind = "None"])
                     ELSE Raise(ErrorOf(resp))
    /\ UNCHANGED <<args, environ, ports, markerSeen, cfg,
                   host, env, container, postFailed>>

\* The cluster can report ready within the 15 seconds only if the service
\* runs, accepts the credentials of the handle and serves the bucket.
ClusterCanBeReady ==
    /\ container = "running"
    /\ svc.creds = BasicAuth
    /\ cfg.bucket \in svc.buckets

\* client(): Cluster(...); cluster.wait_until_ready(15 s); return cluster
client ==
    /\ op = "none"
    /\ nOps < MaxOps
    /\ nOps' = nOps + 1
    /\ calls' = <<>>
    /\ \E ready \in BOOLEAN :
          IF ready /\ ClusterCanBeReady
          THEN Return([NoResult EXCEPT !.kind = "cluster", !.cluster = Cluster])
          ELSE Raise([type |-> "UnAmbiguousTimeoutException", detail |-> ""])
    /\ UNCHANGED <<args, environ, ports, markerSeen, cfg,
                   host, env, container, svc, postFailed>>

\* GET /pools/default/buckets: the body of a 2xx response lists the buckets.
ServiceListBuckets(s) == s.buckets

\* list_buckets that sends the GET a second time when it failed.
list_bucketsRetry ==
    /\ op = "none"
    /\ nOps < MaxOps
    /\ nOps' = nOps + 1
    /\ IF container = "none"
       THEN NoContainer
       ELSE \E resp \in Responses \cup {Raised("ConnectionError")} :
               LET req == Request("GET", BucketsPath, BasicAuth, NoData, resp)
               IN /\ calls' = IF Succeeded(resp) THEN <<req>> ELSE <<req, req>>
                  /\ svc' = svc
                  /\ IF Succeeded(resp)
                     THEN Return([NoResult EXCEPT
                                     !.kind = "buckets",
                                     !.buckets = ServiceListBuckets(svc)])
                     ELSE Raise(ErrorOf(resp))
    /\ UNCHANGED <<args, environ, ports, markerSeen, cfg,
                   host, env, container, postFailed>>

\* list_buckets()
list_buckets ==
    /\ op = "none"
    /\ nOps < MaxOps
    /\ nOps' = nOps + 1
    /\ IF container = "none"
       THEN NoContainer
       ELSE \E resp \in Responses \cup {Raised("ConnectionError")} :
               LET req == Request("GET", BucketsPath, BasicAuth, NoData, resp)
               IN /\ calls' = <<req>>
                  /\ svc' = svc
                  /\ IF Succeeded(resp)
                     THEN Return([NoResult EXCEPT
                                     !.kind = "buckets",
                                     !.buckets = ServiceListBuckets(svc)])
                     ELSE Raise(ErrorOf(resp))
    /\ UNCHANGED <<args, environ, ports, markerSeen, cfg,
                   host, env, container, postFailed>>

Next ==
    \/ start_configure
    \/ super_start
    \/ wait_for_logs
    \/ sleep
    \/ poll
    \/ set_admin_credentials
    \/ _create_bucket
    \/ _create_scope
    \/ _create_collection
    \/ call_set_admin_credentials
    \/ client
    \/ list_buckets

Spec == Init /\ [][Next]_vars

(* ------------------------- the constructor alone ----------------------- *)

\* Before __init__ runs: any arguments, any environment.
InitCtor ==
    /\ args \in [username : ArgValues, password : ArgValues,
                 bucket : ArgValues, scope : ArgValues,
                 collection : ArgValues, ports : PortArgs]
    /\ environ \in [OsEnvVars -> EnvValues]
    /\ cfg = NoConfig
    /\ ports = {}
    /\ markerSeen = FALSE
    /\ host \in Hosts
    /\ env = [k \in EnvKeys |-> ""]
    /\ container = "none"
    /\ svc = FreshService
    /\ op = "__init__"
    /\ pc = "__init__"
    /\ calls = <<>>
    /\ err = NoErr
    /\ result = NoResult
    /\ startRes = "none"
    /\ postFailed = FALSE
    /\ nOps = 0

\* CouchbaseContainer(...): the five fields and the port bindings are set.
__init__ ==
    /\ op = "__init__"
    /\ cfg' = Config(args, environ)
    /\ ports' = BoundPorts(args.ports)
    /\ op' = "none"
    /\ pc' = "idle"
    /\ UNCHANGED <<args, environ, markerSeen, host, env, container, svc, calls,
                   err, result, startRes, postFailed, nOps>>

NextCtor == __init__

CtorSpec == InitCtor /\ [][NextCtor]_vars

\* The thread of control of start() keeps running: every statement that can
\* be executed eventually is.
FairSpec ==
    /\ Spec
    /\ WF_vars(super_start)
    /\ WF_vars(wait_for_logs)
    /\ WF_vars(sleep)
    /\ WF_vars(poll)
    /\ WF_vars(set_admin_credentials)
    /\ WF_vars(_create_bucket)
    /\ WF_vars(_create_scope)
    /\ WF_vars(_create_collection)

\* The lifecycle state of the instance.
Lifecycle ==
    IF op = "start"
    THEN CASE pc = "super_start" -> "Starting"
           [] pc \in {"_connect", "sleep", "get"} -> "AwaitingReadiness"
           [] pc = "set_admin_credentials" -> "SettingCredentials"
           [] pc = "_create_bucket" -> "CreatingBucket"
           [] pc = "_create_scope" -> "CreatingScope"
           [] pc = "_create_collection" -> "CreatingCollection"
    ELSE CASE startRes = "none" -> "Created"
           [] startRes = "returned" -> "Ready"
           [] startRes = "raised" -> "Failed"

TypeOK ==
    /\ op \in {"none", "start", "__init__"}
    /\ container \in {"none", "running"}
    /\ startRes \in {"none", "returned", "raised"}
    /\ nOps \in 0..MaxOps
    /\ Len(calls) <= MaxPolls + 5

(* ------------------------- reading the request log --------------------- *)

\* The response is a 2xx response (status 200..299).
Ok2xx(resp) == resp.exc = "" /\ resp.status \in 200..299

Last(log) == log[Len(log)]

\* The management call a request is: the readiness GET, one of the four
\* provisioning POSTs in their order 1..4, or the bucket listing.
StepOf(req) ==
    CASE req.method = "GET" /\ Len(req.url) = 5 -> 0
      [] req.method = "POST" /\ Len(req.url) = 5 -> 1
      [] req.method = "POST" /\ Len(req.url) = 6 -> 2
      [] req.method = "POST" /\ Len(req.url) = 8 -> 3
      [] req.method = "POST" /\ Len(req.url) = 10 -> 4
      [] OTHER -> 5

\* Readiness GETs first, then the POSTs of steps 1, 2, 3, 4, each directly
\* after a 2xx response to the call before it.
InOrder(log) ==
    \A i \in DOMAIN log :
        /\ StepOf(log[i]) \in 0..4
        /\ StepOf(log[i]) = 0 => \A j \in 1..(i - 1) : StepOf(log[j]) = 0
        /\ StepOf(log[i]) >= 1 =>
              /\ i > 1
              /\ StepOf(log[i - 1]) = StepOf(log[i]) - 1
              /\ Ok2xx(log[i - 1].resp)

LifecycleChain ==
    <<"Created", "Starting", "AwaitingReadiness", "SettingCredentials",
      "CreatingBucket", "CreatingScope", "CreatingCollection", "Ready">>

Rank(l) ==
    IF \E i \in 1..Len(LifecycleChain) : LifecycleChain[i] = l
    THEN CHOOSE i \in 1..Len(LifecycleChain) : LifecycleChain[i] = l
    ELSE 0

(* ------------------------------- C1 ------------------------------------ *)

\* C1: in every run of start() the management calls are issued in the order
\* readiness GET(s), credentials POST, bucket POST, scope POST, collection
\* POST, each POST only after a 2xx response to the call before it; start()
\* returns only after the collection POST received 2xx; and a lifecycle state
\* from AwaitingReadiness to Ready is entered only from its predecessor.
C1_StrictOrder ==
    [][ /\ op = "start" => InOrder(calls')
        /\ (op = "start" /\ result'.kind = "self") =>
              /\ calls' # <<>>
              /\ StepOf(Last(calls')) = 4
              /\ Ok2xx(Last(calls').resp)
        /\ (Lifecycle' # Lifecycle /\ Lifecycle' \notin {"Starting", "Failed"}) =>
              Rank(Lifecycle') = Rank(Lifecycle) + 1
      ]_vars

\* C1 witness: start() has returned after two failed polls, a 2xx poll and
\* the four POSTs.
C1_Witness ==
    /\ result.kind = "self"
    /\ Len(calls) = 7
    /\ StepOf(calls[3]) = 0
    /\ StepOf(calls[7]) = 4

(* ------------------------------- C2 ------------------------------------ *)

\* C2: a provisioning POST that did not receive a 2xx response is the last
\* request of its run: the operation has ended by raising and no later POST
\* has been issued.
C2_AbortOnFailure ==
    \A i \in DOMAIN calls :
        (calls[i].method = "POST" /\ ~Ok2xx(calls[i].resp)) =>
            /\ i = Len(calls)
            /\ op = "none"
            /\ err # NoErr
            /\ result = NoResult

\* C2 witness: bucket creation failed in start() after the credentials were set.
C2_Witness ==
    /\ Lifecycle = "Failed"
    /\ calls # <<>>
    /\ StepOf(Last(calls)) = 2
    /\ ~Ok2xx(Last(calls).resp)
    /\ svc.creds # <<>>
    /\ svc.buckets = {}

(* ------------------------------- C3 ------------------------------------ *)

\* C3: no provisioning POST of start() is issued before a readiness GET
\* returned 2xx; a poll that got a non-2xx response or a connection error
\* leaves the loop polling; a 2xx poll ends the loop, and no GET follows it.
C3_ReadinessGate ==
    [][ op = "start" =>
          /\ \A i \in DOMAIN calls' :
                calls'[i].method = "POST" =>
                    \E j \in 1..(i - 1) :
                        StepOf(calls'[j]) = 0 /\ Ok2xx(calls'[j].resp)
          /\ \A i \in DOMAIN calls' :
                (StepOf(calls'[i]) = 0 /\ Ok2xx(calls'[i].resp)) =>
                    \A j \in (i + 1)..Len(calls') : calls'[j].method = "POST"
          /\ (pc = "get" /\ calls' # calls) =>
                LET r == Last(calls').resp
                IN /\ Ok2xx(r) => (op' = "start" /\ pc' = "set_admin_credentials")
                   /\ (~Ok2xx(r) /\ r.exc \in {"", "ConnectionError"}) =>
                         (op' = "start" /\ pc' = "sleep")
          /\ (pc = "get" /\ pc' = "set_admin_credentials") =>
                (calls' # calls /\ Ok2xx(Last(calls').resp))
      ]_vars

\* C3 witness: the credentials POST has been issued after a non-2xx poll, a
\* poll that met a connection error, and a 2xx poll.
C3_Witness ==
    /\ op = "start"
    /\ pc = "_create_bucket"
    /\ Len(calls) = 4
    /\ \E i \in 1..2 : calls[i].resp.exc = "" /\ ~Ok2xx(calls[i].resp)
    /\ \E i \in 1..2 : calls[i].resp.exc = "ConnectionError"
    /\ Ok2xx(calls[3].resp)

(* ------------------------------- C4 ------------------------------------ *)

\* C4: a poll that meets a connection error leaves start() running and
\* polling, with no error recorded; when the polls before it met connection
\* errors and a poll returns 2xx, start() goes on to set_admin_credentials;
\* and start() never ends with a ConnectionError raised by a poll.
C4_ConnectionErrorsTolerated ==
    [][ (op = "start" /\ pc = "get") =>
          /\ (calls' # calls /\ Last(calls').resp.exc = "ConnectionError") =>
                (op' = "start" /\ pc' = "sleep" /\ err' = NoErr)
          /\ (calls' # calls /\ Ok2xx(Last(calls').resp)) =>
                (op' = "start" /\ pc' = "set_admin_credentials" /\ err' = NoErr)
          /\ op' = "none" => err'.type # "ConnectionError"
      ]_vars

\* C4 witness: after polls that met connection errors and a 2xx poll,
\* start() is about to set the admin credentials.
C4_Witness ==
    /\ op = "start"
    /\ pc = "set_admin_credentials"
    /\ Len(calls) = MaxPolls + 1
    /\ \A i \in 1..MaxPolls : calls[i].resp.exc = "ConnectionError"
    /\ Ok2xx(calls[MaxPolls + 1].resp)

(* ------------------------------- C5 ------------------------------------ *)

Polling == op = "start" /\ pc \in {"sleep", "get"}

\* C5: the readiness wait always ends: whenever start() is in the polling
\* loop, it eventually leaves it (by a 2xx poll or, when no poll ever
\* succeeds, by reporting a timeout).
C5_ReadinessWaitEnds == Polling ~> ~Polling

(* ------------------------------- C6 ------------------------------------ *)

\* The four provisioning steps have taken effect for the configured names.
Provisioned ==
    /\ svc.creds = <<cfg.username, cfg.password>>
    /\ cfg.bucket \in svc.buckets
    /\ <<cfg.bucket, cfg.scope>> \in svc.scopes
    /\ <<cfg.bucket, cfg.scope, cfg.collection>> \in svc.collections

\* C6: once start() has returned normally, the service holds exactly one
\* bucket, one scope in it and one collection in that scope, named as
\* configured.
C6_ExactlyOneOfEach ==
    Lifecycle = "Ready" =>
        /\ svc.buckets = {cfg.bucket}
        /\ svc.scopes = {<<cfg.bucket, cfg.scope>>}
        /\ svc.collections = {<<cfg.bucket, cfg.scope, cfg.collection>>}

\* C6 witness: start() has just returned, for a config whose three names
\* are not all the same.
C6_Witness ==
    /\ result.kind = "self"
    /\ Lifecycle = "Ready"
    /\ cfg.bucket # cfg.scope
    /\ cfg.scope # cfg.collection
    /\ Cardinality(svc.collections) = 1

(* ------------------------------- C7 ------------------------------------ *)

\* C7: after a successful bootstrap, whatever list_buckets() returns
\* contains the configured bucket name, whatever list_buckets() and client()
\* calls came before it.
C7_ListContainsBucket ==
    (Lifecycle = "Ready" /\ result.kind = "buckets") =>
        cfg.bucket \in result.buckets

\* C7 witness: list_buckets() has returned as the third operation after the
\* start() that bootstrapped the container.
C7_Witness ==
    /\ Lifecycle = "Ready"
    /\ result.kind = "buckets"
    /\ nOps = 4
    /\ cfg.bucket # cfg.scope

(* ------------------------------- C8 ------------------------------------ *)

\* C8: client() returns a handle only when the lifecycle is Ready, all four
\* provisioning steps of start() having succeeded.
C8_ClientOnlyWhenReady ==
    result.kind = "cluster" => (Lifecycle = "Ready" /\ Provisioned)

(* ------------------------------- C9 ------------------------------------ *)

Issued(log, k) == Cardinality({i \in DOMAIN log : StepOf(log[i]) = k})

\* C10: within one start() each of the four provisioning POSTs is issued at
\* most once, also when it fails.
C10_NoRetryOfPosts ==
    [][ op = "start" => \A k \in 1..4 : Issued(calls', k) <= 1 ]_vars

\* C10 witness: a start() that polled more than once has ended with a failed
\* collection POST.
C10_Witness ==
    /\ Lifecycle = "Failed"
    /\ Len(calls) >= 6
    /\ Issued(calls, 0) >= 2
    /\ StepOf(Last(calls)) = 4
    /\ ~Ok2xx(Last(calls).resp)

(* ------------------------------- C11 ----------------------------------- *)

\* The service state s holds what provisioning step k creates.
Holds(s, k) ==
    CASE k = 1 -> s.creds = <<cfg.username, cfg.password>>
      [] k = 2 -> cfg.bucket \in s.buckets
      [] k = 3 -> <<cfg.bucket, cfg.scope>> \in s.scopes
      [] k = 4 -> <<cfg.bucket, cfg.scope, cfg.collection>> \in s.collections

\* C11: when a provisioning step of start() fails, the only request of that
\* step is the failed POST, the service keeps exactly what the earlier steps
\* created, and the container stays running; no later operation removes a
\* credential or resource or stops the container.
C11_NoCleanupOnFailure ==
    [][ /\ (op = "start" /\ pc \notin {"super_start", "_connect", "sleep", "get"}
              /\ startRes' = "raised") =>
                /\ svc' = svc
                /\ container' = "running"
                /\ Len(calls') = Len(calls) + 1
                /\ \A i \in DOMAIN calls' : calls'[i].method \in {"GET", "POST"}
                /\ \A k \in 1..4 :
                      (\E i \in DOMAIN calls' :
                           StepOf(calls'[i]) = k /\ Ok2xx(calls'[i].resp))
                          <=> Holds(svc', k)
        /\ container = "running" => container' = "running"
        /\ svc.creds # <<>> => svc'.creds # <<>>
        /\ svc.buckets \subseteq svc'.buckets
        /\ svc.scopes \subseteq svc'.scopes
        /\ svc.collections \subseteq svc'.collections
      ]_vars

\* C11 witness: collection creation failed in start(); later operations
\* have run and the credentials, bucket and scope are still there.
C11_Witness ==
    /\ Lifecycle = "Failed"
    /\ postFailed
    /\ container = "running"
    /\ nOps = MaxOps
    /\ Holds(svc, 1) /\ Holds(svc, 2) /\ Holds(svc, 3)
    /\ svc.collections = {}

(* ------------------------------- C12 ----------------------------------- *)

\* A step in which set_admin_credentials, a create call or list_buckets got
\* its response: the request is the newest of the log.
Answered ==
    /\ calls' # <<>>
    /\ StepOf(Last(calls')) \in 1..5
    /\ Last(calls').resp.exc = ""
    /\ \/ op = "start" /\ Len(calls') = Len(calls) + 1
       \/ op = "none" /\ nOps' = nOps + 1

\* C12: a management call answered with a non-2xx status raises an error
\* whose detail is the body of that response; a call answered with a status
\* in 200..299 raises no error.
C12_ErrorCarriesBody ==
    [][ Answered =>
          LET r == Last(calls').resp
          IN IF r.status \in 200..299
             THEN err' = NoErr
             ELSE /\ op' = "none"
                  /\ err' = [type |-> "RuntimeError", detail |-> r.text]
                  /\ result' = NoResult
      ]_vars

\* C12 witness: list_buckets() has raised with the body of its 300 response.
C12_Witness ==
    /\ Len(calls) = 1
    /\ StepOf(calls[1]) = 5
    /\ calls[1].resp.status = 300
    /\ calls[1].resp.text = "already exists"
    /\ err = [type |-> "RuntimeError", detail |-> "already exists"]

(* ------------------------------- C13 ----------------------------------- *)

\* C13: in every request log the readiness GET and the credentials POST
\* carry no authentication; the bucket, scope and collection POSTs and the
\* bucket listing carry basic auth with the configured username and
\* password; in start() these are the username and password the credentials
\* POST sent, and that POST was answered 2xx before; the listing carries the
\* credentials the service was given.
C13_AuthPerCall ==
    \A i \in DOMAIN calls :
        LET r == calls[i]
        IN /\ StepOf(r) \in {0, 1} => r.auth = <<>>
           /\ StepOf(r) \in 2..5 => r.auth = <<cfg.username, cfg.password>>
           /\ StepOf(r) \in 2..4 =>
                 \E j \in 1..(i - 1) :
                     /\ StepOf(calls[j]) = 1
                     /\ Ok2xx(calls[j].resp)
                     /\ calls[j].auth = <<>>
                     /\ r.auth = <<calls[j].data.username,
                                   calls[j].data.password>>
           /\ (StepOf(r) = 5 /\ svc.creds # <<>>) => r.auth = svc.creds

\* C13 witness: start() has returned for the config given explicitly; its
\* log holds an unauthenticated GET and credentials POST and three POSTs
\* with basic auth.
C13_Witness ==
    /\ result.kind = "self"
    /\ cfg.username = "administrator"
    /\ cfg.password = "secret"
    /\ Len(calls) >= 5
    /\ calls[1].auth = <<>>
    /\ Last(calls).auth = <<"administrator", "secret">>

(* ------------------------------- C14 ----------------------------------- *)

\* A step of list_buckets() on a started container: a public call whose
\* first request is a GET.
ListStep ==
    /\ op = "none"
    /\ nOps' = nOps + 1
    /\ calls' # <<>>
    /\ calls'[1].method = "GET"

Constructed == op # "__init__"

\* The value of the environment variable of field f, or the fallback.
FromEnvironment(f) ==
    IF environ[EnvVarOf[f]] # <<>> THEN environ[EnvVarOf[f]][1]
    ELSE Fallback[f]

\* C15 as stated: for each of the five fields the effective value is the
\* constructor argument whenever one was given (the empty string included),
\* else the environment variable when set, else the fallback.
C15_GivenArgumentWins ==
    Constructed =>
        \A f \in Fields :
            cfg[f] = IF args[f] # <<>> THEN args[f][1] ELSE FromEnvironment(f)

\* C15, what the constructor does guarantee: for each of the five fields the
\* effective value is the constructor argument whenever a non-empty one was
\* given; an argument that is not given or is the empty string counts as
\* absent, and the value is then the environment variable when set, else
\* the fallback.
C15_NonEmptyArgumentWins ==
    Constructed =>
        \A f \in Fields :
            cfg[f] = IF args[f] # <<>> /\ args[f][1] # "" THEN args[f][1]
                     ELSE FromEnvironment(f)

\* C15, a constructed state covering the three sources: a username given
\* while its variable is
\* set, an empty password with its variable set, no bucket and no variable.
C15_Witness ==
    /\ Constructed
    /\ args.username = <<"given">>
    /\ environ["COUCHBASE_USERNAME"] = <<"fromenv">>
    /\ cfg.username = "given"
    /\ args.password = <<"">>
    /\ environ["COUCHBASE_PASSWORD"] = <<"fromenv">>
    /\ cfg.password = "fromenv"
    /\ args.bucket = <<>>
    /\ environ["COUCHBASE_BUCKET"] = <<>>
    /\ cfg.bucket = "default"

(* ------------------------------- C16 ----------------------------------- *)

\* C16: every cluster handle client() returns is built from the URL
\* couchbases://<host ip> of the container's host address, whichever the
\* host address is, and with certificate verification switched off.
C16_HandleUsesEncryptedUrl ==
    result.kind = "cluster" =>
        /\ result.cluster.url = <<"couchbases", host>>
        /\ Len(result.cluster.url) = 2
        /\ result.cluster.tls_verify = "NONE"

\* C16 witness: client() has returned a handle on the host 172.17.0.1.
C16_Witness ==
    /\ result.kind = "cluster"
    /\ host = "172.17.0.1"
    /\ result.cluster.url[2] = "172.17.0.1"

(* ------------------------------- C17 ----------------------------------- *)

\* C17: in every reachable state, after any sequence of start(),
\* set_admin_credentials(), client() and list_buckets() and also after a
\* failed start(), every collection of the service lies in a scope that
\* exists, every scope lies in a bucket that exists, and a bucket exists
\* only if the admin credentials have been set.
C17_DependencyOrder ==
    /\ \A c \in svc.collections : <<c[1], c[2]>> \in svc.scopes
    /\ \A s \in svc.scopes : s[1] \in svc.buckets
    /\ svc.buckets # {} => svc.creds # <<>>

\* C17 witness: start() failed at the scope, leaving the credentials and the
\* bucket behind, and a public operation has run since.
C17_Witness ==
    /\ startRes = "raised"
    /\ postFailed
    /\ nOps >= 2
    /\ svc.creds # <<>>
    /\ svc.buckets = {cfg.bucket}
    /\ svc.scopes = {}
    /\ svc.collections = {}

(* ------------------------------- C18 ----------------------------------- *)

\* start() has not yet come back from the log wait of its _connect.
BeforeLogWait == op = "start" /\ pc \in {"super_start", "_connect"}

\* C18: within _connect no GET on /settings/web is issued before the wait
\* for the log marker has returned: up to the return of the wait the request
\* log of start() is empty, the loop is entered and a GET is logged only
\* with the marker seen, and a log wait that fails ends start() with the
\* TimeoutError and without any request.
C18_LogWaitBeforePolling ==
    [][ /\ BeforeLogWait => calls = <<>>
        /\ (Polling' \/ Issued(calls', 0) > 0) => markerSeen'
        /\ (op = "start" /\ pc = "_connect" /\ ~markerSeen') =>
              /\ calls' = <<>>
              /\ op' = "none"
              /\ startRes' = "raised"
              /\ err'.type = "TimeoutError" ]_vars

\* C18 witness: the log wait of a started container failed and start()
\* raised the TimeoutError without having sent a request.
C18_Witness ==
    /\ startRes = "raised"
    /\ err.type = "TimeoutError"
    /\ container = "running"
    /\ ~markerSeen
    /\ calls = <<>>
    /\ svc = FreshService

(* ------------------------------- C19 ----------------------------------- *)

\* C19: a poll of the loop of _connect that raises anything other than a
\* connection error ends the loop with that exception and without
\* readiness: the loop goes on only after a non-2xx response or a
\* connection error, it is left for the provisioning only after a 2xx
\* response, and otherwise start() raises the exception of the poll and
\* sends no POST.
C19_OnlyConnectionErrorsSuppressed ==
    [][ (op = "start" /\ pc = "get") =>
           /\ (Polling' /\ Len(calls') > Len(calls)) =>
                 /\ Last(calls').resp.exc \in {"", "ConnectionError"}
                 /\ ~Ok2xx(Last(calls').resp)
           /\ ~Polling' =>
                 LET r == Last(calls').resp
                 IN IF r.exc = ""
                    THEN /\ Ok2xx(r)
                         /\ op' = "start"
                         /\ pc' = "set_admin_credentials"
                    ELSE /\ r.exc # "ConnectionError"
                         /\ op' = "none"
                         /\ startRes' = "raised"
                         /\ err'.type = r.exc
                         /\ \A k \in 1..4 : Issued(calls', k) = 0
                         /\ svc' = svc ]_vars

\* C19 witness: after a suppressed connection error a poll raised a read
\* timeout, and start() raised it with nothing provisioned.
C19_Witness ==
    /\ startRes = "raised"
    /\ err.type = "ReadTimeout"
    /\ Len(calls) = 2
    /\ calls[1].resp.exc = "ConnectionError"
    /\ calls[2].resp.exc = "ReadTimeout"
    /\ svc = FreshService

====
